---------------------------- MODULE Spec2Model ----------------------------
(***************************************************************************)
(* Blocking-index fuzzy matcher of philoch_bib_sdk                         *)
(* (logic/functions/fuzzy_matcher.py): feature extractors, index           *)
(* construction, candidate retrieval, ranking, staging (single, batch,     *)
(* streaming).                                                             *)
(*                                                                         *)
(* Encoding.  A Python str that the code normalises is a sequence of       *)
(* one-character strings; a str the code only compares (a DOI) is a TLA+   *)
(* string.  An optional value (int | None, Journal | "", date | "no date") *)
(* is <<>> when absent and <<v>> when present.  A dict is a function whose *)
(* DOMAIN is the dict's key set.  A frozenset is a set; the order in which *)
(* Python iterates it is fixed by the process's hash seed (hashseed).      *)
(*                                                                         *)
(* Specifications.  Spec: one client calling the matcher's functions one   *)
(* after the other.  SpecConc: stage_bibitem calls running interleaved on  *)
(* one index.  SpecImport: procedures/import_to_api.py against the API.    *)
(* SpecProc: procedures/fuzzy_matching.py with its injected loaders and    *)
(* report writer.                                                          *)
(***************************************************************************)
EXTENDS Integers, Sequences, FiniteSets, TLC

VARIABLES corpus, hashseed, index, last, gen, threads, scratch, imp, api, proc

(* the matcher and its single client *)
matcherVars == <<corpus, hashseed, index, last, gen>>

(* the stage operations that run interleaved on one index *)
concVars == <<threads, scratch>>

(* the import procedure and the API it talks to *)
importVars == <<imp, api>>

(* the fuzzy matching procedure *)
procVars == <<proc>>

vars == <<corpus, hashseed, index, last, gen, threads, scratch, imp, api, proc>>

(***************************************************************************)
(* Bounds of the model.                                                    *)
(***************************************************************************)
MaxCorpus == 2
MaxBatch == 2
MaxTopN == 2
MaxRows == 2
MaxFaults == 1

----------------------------------------------------------------------------
(* Generic helpers.                                                        *)

None == <<>>

Some(v) == <<v>>

Range(s) == {s[i] : i \in 1..Len(s)}

SeqsUpTo(S, n) == UNION {[1..k -> S] : k \in 0..n}

(* dict.get(k, default) *)
Lookup(d, k, default) == IF k \in DOMAIN d THEN d[k] ELSE default

Min(a, b) == IF a < b THEN a ELSE b

RECURSIVE Flatten(_)
(* the concatenation of a sequence of sequences *)
Flatten(seqs) == IF seqs = <<>> THEN <<>> ELSE Head(seqs) \o Flatten(Tail(seqs))

RECURSIVE Unique(_)
(* the elements of seq, each at its first occurrence (the insertion order  *)
(* of the keys of a dict filled with "if key not in d: d[key] = ...")      *)
Unique(seq) ==
    IF seq = <<>> THEN <<>>
    ELSE LET rest == Unique(SubSeq(seq, 1, Len(seq) - 1))
             x == seq[Len(seq)]
         IN  IF x \in Range(rest) THEN rest ELSE Append(rest, x)

----------------------------------------------------------------------------
(* String normalisation.                                                   *)

IsSpace(c) == c = " "

lower(c) ==
    CASE c = "A" -> "a"
      [] c = "B" -> "b"
      [] OTHER -> c

RECURSIVE CollapseFrom(_, _, _)
CollapseFrom(text, i, out) ==
    IF i > Len(text) THEN out
    ELSE IF IsSpace(text[i])
         THEN IF out # <<>> /\ ~IsSpace(out[Len(out)])
              THEN CollapseFrom(text, i + 1, Append(out, " "))
              ELSE CollapseFrom(text, i + 1, out)
         ELSE CollapseFrom(text, i + 1, Append(out, text[i]))

(* aletk.utils.remove_extra_whitespace: runs of whitespace become one      *)
(* space, leading and trailing whitespace is dropped.                      *)
remove_extra_whitespace(text) ==
    LET c == CollapseFrom(text, 1, <<>>)
    IN  IF c # <<>> /\ IsSpace(c[Len(c)]) THEN SubSeq(c, 1, Len(c) - 1) ELSE c

(* remove_extra_whitespace(x).lower() *)
Normalize(text) ==
    LET t == remove_extra_whitespace(text)
    IN  [i \in 1..Len(t) |-> lower(t[i])]

----------------------------------------------------------------------------
(* Feature extractors.                                                     *)

(* mutant: only the leading trigram of the normalised text is produced *)
_extract_trigrams_prefix(text) ==
    LET normalized == Normalize(text)
    IN  IF Len(normalized) < 3 THEN {} ELSE {SubSeq(normalized, 1, 3)}

(* mutant: a non-empty text too short for a trigram is its own key *)
_extract_trigrams_short_as_key(text) ==
    LET normalized == Normalize(text)
    IN  IF normalized = <<>> THEN {}
        ELSE IF Len(normalized) < 3 THEN {normalized}
        ELSE {SubSeq(normalized, i, i + 2) : i \in 1..(Len(normalized) - 2)}

_extract_trigrams(text) ==
    LET normalized == Normalize(text)
    IN  IF Len(normalized) < 3 THEN {}
        ELSE {SubSeq(normalized, i, i + 2) : i \in 1..(Len(normalized) - 2)}

(* An author is its family_name.simplified; a str is truthy when non-empty *)
(* (so a whitespace-only surname passes the test and is normalised).       *)
_extract_author_surnames(authors) ==
    IF authors = <<>> THEN {}
    ELSE {Normalize(authors[i]) : i \in {j \in 1..Len(authors) : authors[j] # <<>>}}

(* date is <<>> for "no date" and <<year>> for a BibItemDateAttr; Python's *)
(* // floors, as \div does.                                                *)
_get_decade(date) ==
    IF date = None THEN None
    ELSE Some((date[1] \div 10) * 10)

(* The journal key of a record: item.journal truthy, name normalised.      *)
JournalName(item) ==
    IF item.journal = None THEN None
    ELSE Some(Normalize(item.journal[1]))

----------------------------------------------------------------------------
(* Records.  A BibItem is reduced to the fields the matcher reads (doi,    *)
(* title.simplified, author[i].family_name.simplified, date, journal.name) *)
(* plus id, which stands for every other field in the record's structural  *)
(* equality and hash.                                                      *)

BibItem(id, doi, title, author, date, journal) ==
    [id |-> id, doi |-> doi, title |-> title, author |-> author,
     date |-> date, journal |-> journal]

(* "Abab", surname "Ba", 1950, journal "Bb", DOI d1 *)
R1 == BibItem(1, "d1", <<"A", "b", "a", "b">>, << <<"B", "a">> >>,
              Some(1950), Some(<<"B", "b">>))

(* "**Abab" (R1's title behind noise), surname "ba", 2009, R1's DOI *)
R2 == BibItem(2, "d1", <<"*", "*", "A", "b", "a", "b">>, << <<"b", "a">> >>,
              Some(2009), None)

(* no identifier, no title, no authors, no date, no journal *)
R3 == BibItem(3, "", <<>>, <<>>, None, None)

(* " ba  b", a whitespace-only surname, 1949, journal " bB", DOI d2 *)
R4 == BibItem(4, "d2", <<" ", "b", "a", " ", " ", "b">>, << <<" ">> >>,
              Some(1949), Some(<<" ", "b", "B">>))

(* "ba" (too short for a trigram), surnames "" and "A", 2000, a            *)
(* whitespace-only journal name                                            *)
R5 == BibItem(5, "", <<"b", "a">>, << <<>>, <<"A">> >>,
              Some(2000), Some(<<" ">>))

(* "***Abab" (the titles of R1 and of R2 behind leading noise), surname     *)
(* " A", no identifier, no date, no journal                                *)
R6 == BibItem(6, "", <<"*", "*", "*", "A", "b", "a", "b">>, << <<" ", "A">> >>,
              None, None)

ItemSeq == <<R1, R2, R3, R4, R5>>

(* the records a corpus is made of *)
Items == Range(ItemSeq)

(* the records a single query is made of: the corpus records and R6, which *)
(* is never indexed                                                        *)
Subjects == Items \cup {R6}

(* The hash seeds of the model: under "fwd" a set of records iterates in   *)
(* ItemSeq order, under "rev" in the reverse order.                        *)
HashSeeds == {"fwd", "rev"}

IterationOrder(seed) ==
    IF seed = "fwd" THEN ItemSeq
    ELSE [i \in 1..Len(ItemSeq) |-> ItemSeq[Len(ItemSeq) + 1 - i]]

(* for x in S: the elements of the set S in the process's iteration order  *)
Iterate(S, seed) == SelectSeq(IterationOrder(seed), LAMBDA x : x \in S)

(* the min_score arguments: no threshold, and a threshold some totals meet *)
MinScores == {0, 6}

(* the records batches and streams are made of: one whose DOI can hit, one *)
(* without any feature, one dated and without DOI                          *)
BatchItems == {R2, R3, R5}

----------------------------------------------------------------------------
(* The detailed scorer (logic/functions/comparator.py): an ordered list of *)
(* partial scores, each with a component tag and a weighted contribution.  *)

PartialScore(component, weighted_score) ==
    [component |-> component, weighted_score |-> weighted_score]

compare_bibitems_detailed(candidate, subject) ==
    LET title == IF candidate.title = <<>> THEN 0
                 ELSE IF candidate.title = subject.title THEN 10
                 ELSE IF subject.title # <<>>
                         /\ candidate.title[Len(candidate.title)]
                              = subject.title[Len(subject.title)] THEN 6
                 ELSE 0
        author == IF candidate.author # <<>> /\ candidate.author = subject.author
                  THEN 4 ELSE 0
        date == IF candidate.date # None /\ candidate.date = subject.date
                THEN 2 ELSE 0
        bonus == IF candidate.doi # "" /\ candidate.doi = subject.doi
                 THEN 2 ELSE 0
    IN  << PartialScore("title", title), PartialScore("author", author),
           PartialScore("date", date), PartialScore("bonus", bonus) >>

----------------------------------------------------------------------------
(* Index construction.                                                     *)

EmptyDict == [k \in {} |-> {}]

BibItemBlockIndex(doi_index, title_trigrams, author_surnames, year_decades, journals, all_items) ==
    [doi_index |-> doi_index, title_trigrams |-> title_trigrams,
     author_surnames |-> author_surnames, year_decades |-> year_decades,
     journals |-> journals, all_items |-> all_items]

(* d[k] = v *)
Put(d, k, v) == [x \in DOMAIN d \cup {k} |-> IF x = k THEN v ELSE d[x]]

(* for k in keys: d[k].add(v), d a defaultdict(set) *)
AddAll(d, keys, v) ==
    [x \in DOMAIN d \cup keys |->
        IF x \in keys THEN Lookup(d, x, {}) \cup {v} ELSE d[x]]

(* mutant: an identifier already registered is kept (the first record wins) *)
RegisterDoi_first_wins(doi_index, item) ==
    IF item.doi # "" /\ item.doi \notin DOMAIN doi_index
    THEN Put(doi_index, item.doi, item)
    ELSE doi_index

(* if item.doi: doi_index[item.doi] = item *)
RegisterDoi(doi_index, item) ==
    IF item.doi # "" THEN Put(doi_index, item.doi, item) ELSE doi_index

(* mutant: a record without identifier, title, authors and journal is      *)
(* passed over                                                             *)
IndexItem_skip_featureless(acc, item) ==
    IF item.doi = "" /\ item.title = <<>> /\ item.author = <<>>
       /\ item.journal = None
    THEN acc
    ELSE [doi_index |-> RegisterDoi(acc.doi_index, item),
          title_trigrams |->
             AddAll(acc.title_trigrams, _extract_trigrams(item.title), item),
          author_surnames |->
             AddAll(acc.author_surnames,
                    _extract_author_surnames(item.author), item),
          year_decades |->
             AddAll(acc.year_decades, {_get_decade(item.date)}, item),
          journals |->
             IF JournalName(item) # None /\ JournalName(item)[1] # <<>>
             THEN AddAll(acc.journals, {JournalName(item)[1]}, item)
             ELSE acc.journals]

(* The body of the single pass of _build_index_python, for one item.       *)
IndexItem(acc, item) ==
    LET jn == JournalName(item)
    IN  [doi_index |-> RegisterDoi(acc.doi_index, item),
         title_trigrams |->
            AddAll(acc.title_trigrams, _extract_trigrams(item.title), item),
         author_surnames |->
            AddAll(acc.author_surnames, _extract_author_surnames(item.author), item),
         year_decades |->
            AddAll(acc.year_decades, {_get_decade(item.date)}, item),
         journals |->
            IF jn # None /\ jn[1] # <<>>
            THEN AddAll(acc.journals, {jn[1]}, item)
            ELSE acc.journals]

RECURSIVE IndexFrom(_, _, _)
(* mutant: the pass runs from the last record to the first *)
IndexFrom_backwards(bibitems, i, acc) ==
    IF i > Len(bibitems) THEN acc
    ELSE IndexItem(IndexFrom(bibitems, i + 1, acc), bibitems[i])

(* for item in bibitems: the single pass, in corpus order *)
IndexFrom(bibitems, i, acc) ==
    IF i > Len(bibitems) THEN acc
    ELSE IndexFrom(bibitems, i + 1, IndexItem(acc, bibitems[i]))

(* mutant: the bucket of the dateless records is created up front *)
EmptyMaps_unknown_bucket ==
    [doi_index |-> EmptyDict, title_trigrams |-> EmptyDict,
     author_surnames |-> EmptyDict, year_decades |-> [k \in {None} |-> {}],
     journals |-> EmptyDict]

(* the five index structures before the pass: an empty dict and four empty *)
(* defaultdict(set)                                                        *)
EmptyMaps ==
    [doi_index |-> EmptyDict, title_trigrams |-> EmptyDict,
     author_surnames |-> EmptyDict, year_decades |-> EmptyDict,
     journals |-> EmptyDict]

_build_index_python(bibitems) ==
    LET maps == IndexFrom(bibitems, 1, EmptyMaps)
    IN  BibItemBlockIndex(maps.doi_index, maps.title_trigrams,
                          maps.author_surnames, maps.year_decades,
                          maps.journals, bibitems)

----------------------------------------------------------------------------
(* The native path of build_index: per-record projection, position-keyed   *)
(* buckets, translation back to the records.  Positions are 0-based.       *)

(* mutant: the projection carries the year itself, not its decade *)
_prepare_items_for_rust_raw_year(bibitems) ==
    [i \in 1..Len(bibitems) |->
        LET item == bibitems[i]
        IN  [item_index |-> i - 1,
             doi |-> IF item.doi # "" THEN Some(item.doi) ELSE None,
             title |-> item.title,
             author_surnames |-> _extract_author_surnames(item.author),
             year |-> item.date,
             journal_name |-> JournalName(item)]]

_prepare_items_for_rust(bibitems) ==
    [i \in 1..Len(bibitems) |->
        LET item == bibitems[i]
        IN  [item_index |-> i - 1,
             doi |-> IF item.doi # "" THEN Some(item.doi) ELSE None,
             title |-> item.title,
             author_surnames |-> _extract_author_surnames(item.author),
             year |-> _get_decade(item.date),
             journal_name |-> JournalName(item)]]

(* One projection's contribution to the position-keyed buckets.            *)
IndexProjection(acc, p) ==
    [doi_to_index |->
        IF p.doi # None THEN Put(acc.doi_to_index, p.doi[1], p.item_index)
        ELSE acc.doi_to_index,
     trigram_to_indices |->
        AddAll(acc.trigram_to_indices, _extract_trigrams(p.title), p.item_index),
     surname_to_indices |->
        AddAll(acc.surname_to_indices, p.author_surnames, p.item_index),
     decade_to_indices |->
        AddAll(acc.decade_to_indices, {p.year}, p.item_index),
     journal_to_indices |->
        IF p.journal_name # None /\ p.journal_name[1] # <<>>
        THEN AddAll(acc.journal_to_indices, {p.journal_name[1]}, p.item_index)
        ELSE acc.journal_to_indices]

RECURSIVE ProjectionsFrom(_, _, _)
ProjectionsFrom(items_data, i, acc) ==
    IF i > Len(items_data) THEN acc
    ELSE ProjectionsFrom(items_data, i + 1, IndexProjection(acc, items_data[i]))

(* philoch_bib_sdk._rust.build_index_rust: five position-keyed bucket      *)
(* mappings equivalent to the reference builder's.                         *)
build_index_rust(items_data) ==
    ProjectionsFrom(items_data, 1,
                    [doi_to_index |-> EmptyDict, trigram_to_indices |-> EmptyDict,
                     surname_to_indices |-> EmptyDict,
                     decade_to_indices |-> EmptyDict,
                     journal_to_indices |-> EmptyDict])

_reconstruct_index_from_rust(index_data, items) ==
    LET back(d) == [k \in DOMAIN d |-> {items[idx + 1] : idx \in d[k]}]
    IN  BibItemBlockIndex(
            [doi \in DOMAIN index_data.doi_to_index |->
                items[index_data.doi_to_index[doi] + 1]],
            back(index_data.trigram_to_indices),
            back(index_data.surname_to_indices),
            back(index_data.decade_to_indices),
            back(index_data.journal_to_indices),
            items)

(* mutant: the records are deduplicated before they are indexed *)
build_index_dedup(bibitems, use_rust) ==
    LET items_tuple == Iterate(Range(bibitems), "fwd")
    IN  IF use_rust
        THEN _reconstruct_index_from_rust(
                 build_index_rust(_prepare_items_for_rust(items_tuple)),
                 items_tuple)
        ELSE _build_index_python(items_tuple)

(* use_rust: whether the import of the native module succeeded.            *)
build_index(bibitems, use_rust) ==
    IF use_rust
    THEN _reconstruct_index_from_rust(
             build_index_rust(_prepare_items_for_rust(bibitems)), bibitems)
    ELSE _build_index_python(bibitems)

----------------------------------------------------------------------------
(* Candidate retrieval.                                                    *)

(* mutant: range(-5, 5), the window misses the fifth decade after *)
DecadeWindow_half_open(subject_decade) ==
    {subject_decade + offset * 10 : offset \in -5..4}

(* the decade window of a dated subject: range(-5, 6) offsets of 10        *)
DecadeWindow(subject_decade) == {subject_decade + offset * 10 : offset \in -5..5}

(* mutant: the loop over the keys stops at the first key that is in d *)
Buckets_first_hit(d, keys) ==
    IF keys \cap DOMAIN d = {} THEN {}
    ELSE d[CHOOSE k \in keys \cap DOMAIN d : TRUE]

(* the union of d[k] over the keys k that are in the dict d                *)
Buckets(d, keys) == UNION {d[k] : k \in keys \cap DOMAIN d}

HasDoiHit(subject, idx) ==
    subject.doi # "" /\ subject.doi \in DOMAIN idx.doi_index

(* the keys of year_decades a subject looks up: its decade window when it  *)
(* is dated, the None key when it is not                                   *)
DecadeKeys(subject) ==
    LET subject_decade == _get_decade(subject.date)
    IN  IF subject_decade # None
        THEN {Some(d) : d \in DecadeWindow(subject_decade[1])}
        ELSE {None}

(* the keys of journals a subject looks up *)
JournalKeys(subject) ==
    LET jn == JournalName(subject)
    IN  IF jn # None /\ jn[1] # <<>> THEN {jn[1]} ELSE {}

(* mutant: the decade lookup decides whenever it finds anything; the other *)
(* lookups are used only when it finds nothing                             *)
BlockedCandidates_date_first(subject, idx) ==
    LET dated == Buckets(idx.year_decades, DecadeKeys(subject))
    IN  IF dated # {} THEN dated
        ELSE Buckets(idx.title_trigrams, _extract_trigrams(subject.title))
             \cup Buckets(idx.author_surnames,
                          _extract_author_surnames(subject.author))
             \cup Buckets(idx.journals, JournalKeys(subject))

(* the set accumulated from the trigram, surname, decade and journal       *)
(* lookups                                                                 *)
BlockedCandidates(subject, idx) ==
    Buckets(idx.title_trigrams, _extract_trigrams(subject.title))
    \cup Buckets(idx.author_surnames, _extract_author_surnames(subject.author))
    \cup Buckets(idx.year_decades, DecadeKeys(subject))
    \cup Buckets(idx.journals, JournalKeys(subject))

(* mutant: no fallback to all_items *)
_get_candidate_set_no_fallback(subject, idx) ==
    IF HasDoiHit(subject, idx) THEN {idx.doi_index[subject.doi]}
    ELSE BlockedCandidates(subject, idx)

_get_candidate_set(subject, idx) ==
    IF HasDoiHit(subject, idx) THEN {idx.doi_index[subject.doi]}
    ELSE LET candidates == BlockedCandidates(subject, idx)
         IN  IF candidates = {} THEN Range(idx.all_items) ELSE candidates

(* mutant: a lookup creates the bucket of a key that is not there (the     *)
(* subscript of a defaultdict, or setdefault)                              *)
Probed_setdefault(d, keys) == [x \in DOMAIN d \cup keys |-> Lookup(d, x, {})]

(* The dict d after "for key in keys: if key in d: candidates.update(d[key])": *)
(* a membership test and a subscript of a key that is there, both reads;   *)
(* update writes to the local set candidates only.                         *)
Probed(d, keys) == d

(* The index object after _get_candidate_set(subject, idx) has returned.   *)
IndexAfterRetrieval(subject, idx) ==
    IF HasDoiHit(subject, idx) THEN idx
    ELSE BibItemBlockIndex(
             idx.doi_index,
             Probed(idx.title_trigrams, _extract_trigrams(subject.title)),
             Probed(idx.author_surnames,
                    _extract_author_surnames(subject.author)),
             Probed(idx.year_decades, DecadeKeys(subject)),
             Probed(idx.journals, JournalKeys(subject)),
             idx.all_items)

(* The index object after stage_bibitem(bibitem, idx, ...): one retrieval  *)
(* of its own and one inside find_similar_bibitems.                        *)
IndexAfterStage(bibitem, idx) ==
    IndexAfterRetrieval(bibitem, IndexAfterRetrieval(bibitem, idx))

RECURSIVE IndexAfterBatch(_, _, _)
(* The index object after stage_bibitem has run on bibitems[i..] in order. *)
IndexAfterBatch(bibitems, i, idx) ==
    IF i > Len(bibitems) THEN idx
    ELSE IndexAfterBatch(bibitems, i + 1, IndexAfterStage(bibitems[i], idx))

----------------------------------------------------------------------------
(* Ranking.                                                                *)

RECURSIVE SumWeighted(_)
(* sum(ps.weighted_score for ps in partial_scores) *)
SumWeighted(partial_scores) ==
    IF partial_scores = <<>> THEN 0
    ELSE partial_scores[1].weighted_score + SumWeighted(Tail(partial_scores))

(* scored_items and with_totals: one (candidate, partial_scores, total)    *)
(* per candidate, in the iteration order of the candidate set.             *)
WithTotals(subject, candidates, seed) ==
    LET cs == Iterate(candidates, seed)
    IN  [i \in 1..Len(cs) |->
            LET partial_scores == compare_bibitems_detailed(cs[i], subject)
            IN  [candidate |-> cs[i], partial_scores |-> partial_scores,
                 total_score |-> SumWeighted(partial_scores)]]

RemoveAt(seq, i) == SubSeq(seq, 1, i - 1) \o SubSeq(seq, i + 1, Len(seq))

(* the first position holding the greatest total_score *)
FirstMax(seq) ==
    CHOOSE i \in 1..Len(seq) :
        /\ \A j \in 1..Len(seq) : seq[j].total_score <= seq[i].total_score
        /\ \A j \in 1..(i - 1) : seq[j].total_score < seq[i].total_score

RECURSIVE topk(_, _)
(* cytoolz.topk(k, seq, key=total_score): the k greatest, greatest first;  *)
(* among equal keys the element met first comes first; () when k < 1.      *)
topk(k, seq) ==
    IF k < 1 \/ seq = <<>> THEN <<>>
    ELSE LET i == FirstMax(seq)
         IN  <<seq[i]>> \o topk(k - 1, RemoveAt(seq, i))

Match(matched_bibitem, total_score, partial_scores, rank) ==
    [matched_bibitem |-> matched_bibitem, total_score |-> total_score,
     partial_scores |-> partial_scores, rank |-> rank]

(* mutant: a Match carries only the partial scores that contributed *)
RankMatches_contributing_only(top_results) ==
    [rank \in 1..Len(top_results) |->
        Match(top_results[rank].candidate, top_results[rank].total_score,
              SelectSeq(top_results[rank].partial_scores,
                        LAMBDA ps : ps.weighted_score # 0),
              rank)]

(* the Match objects of the selected results, ranked from 1 *)
RankMatches(top_results) ==
    [rank \in 1..Len(top_results) |->
        Match(top_results[rank].candidate, top_results[rank].total_score,
              top_results[rank].partial_scores, rank)]

(* mutant: the threshold is exclusive *)
Filtered_strict(subject, candidates, min_score, seed) ==
    SelectSeq(WithTotals(subject, candidates, seed),
              LAMBDA x : x.total_score > min_score)

(* the candidates whose total passes the threshold, in iteration order *)
Filtered(subject, candidates, min_score, seed) ==
    SelectSeq(WithTotals(subject, candidates, seed),
              LAMBDA x : x.total_score >= min_score)

(* mutant: the first top_n survivors in iteration order, not the greatest *)
find_similar_bibitems_first_n(subject, idx, top_n, min_score, seed) ==
    LET candidates == _get_candidate_set(subject, idx)
        filtered == Filtered(subject, candidates, min_score, seed)
    IN  RankMatches(SubSeq(filtered, 1, IF top_n < Len(filtered) THEN top_n
                                        ELSE Len(filtered)))

(* mutant: when no candidate passes the threshold the best candidates are  *)
(* returned all the same                                                   *)
find_similar_bibitems_best_effort(subject, idx, top_n, min_score, seed) ==
    LET candidates == _get_candidate_set(subject, idx)
        filtered == Filtered(subject, candidates, min_score, seed)
    IN  IF filtered = <<>>
        THEN RankMatches(topk(top_n, WithTotals(subject, candidates, seed)))
        ELSE RankMatches(topk(top_n, filtered))

(* mutant: the selection stops one short of top_n *)
find_similar_bibitems_one_short(subject, idx, top_n, min_score, seed) ==
    LET candidates == _get_candidate_set(subject, idx)
        filtered == Filtered(subject, candidates, min_score, seed)
    IN  RankMatches(topk(top_n - 1, filtered))

(* mutant: the candidates are a list, extended by what each of the four    *)
(* lookups finds, so a record found by several lookups is scored for each  *)
find_similar_bibitems_listed(subject, idx, top_n, min_score, seed) ==
    LET found == Iterate(Buckets(idx.title_trigrams,
                                 _extract_trigrams(subject.title)), seed)
                 \o Iterate(Buckets(idx.author_surnames,
                                    _extract_author_surnames(subject.author)), seed)
                 \o Iterate(Buckets(idx.year_decades, DecadeKeys(subject)), seed)
                 \o Iterate(Buckets(idx.journals, JournalKeys(subject)), seed)
        listed == IF HasDoiHit(subject, idx) THEN <<idx.doi_index[subject.doi]>>
                  ELSE IF found = <<>> THEN idx.all_items ELSE found
        scored == [i \in 1..Len(listed) |->
                     LET partial_scores ==
                             compare_bibitems_detailed(listed[i], subject)
                     IN  [candidate |-> listed[i],
                          partial_scores |-> partial_scores,
                          total_score |-> SumWeighted(partial_scores)]]
    IN  RankMatches(topk(top_n, SelectSeq(scored,
                                          LAMBDA x : x.total_score >= min_score)))

find_similar_bibitems(subject, idx, top_n, min_score, seed) ==
    LET candidates == _get_candidate_set(subject, idx)
        filtered == Filtered(subject, candidates, min_score, seed)
    IN  RankMatches(topk(top_n, filtered))

----------------------------------------------------------------------------
(* Staging.  search_time_ms (wall-clock) is not modelled.                  *)

BibItemStaged(bibitem, top_matches, search_metadata) ==
    [bibitem |-> bibitem, top_matches |-> top_matches,
     search_metadata |-> search_metadata]

(* mutant: candidates_searched reports the corpus size *)
stage_bibitem_corpus_size(bibitem, idx, top_n, min_score, seed) ==
    BibItemStaged(bibitem,
                  find_similar_bibitems(bibitem, idx, top_n, min_score, seed),
                  [candidates_searched |-> Len(idx.all_items)])

stage_bibitem(bibitem, idx, top_n, min_score, seed) ==
    LET candidates == _get_candidate_set(bibitem, idx)
        top_matches == find_similar_bibitems(bibitem, idx, top_n, min_score, seed)
    IN  BibItemStaged(bibitem, top_matches,
                      [candidates_searched |-> Cardinality(candidates)])

(* mutant: each distinct record is staged once *)
stage_bibitems_batch_dedup(bibitems, idx, top_n, min_score, seed) ==
    LET distinct == Iterate(Range(bibitems), seed)
    IN  [i \in 1..Len(distinct) |->
            stage_bibitem(distinct[i], idx, top_n, min_score, seed)]

stage_bibitems_batch(bibitems, idx, top_n, min_score, seed) ==
    [i \in 1..Len(bibitems) |->
        stage_bibitem(bibitems[i], idx, top_n, min_score, seed)]

(* The generator object of stage_bibitems_streaming: its arguments, the    *)
(* number of input records its loop has taken, what it has yielded so far  *)
(* and whether it has raised StopIteration.                                *)
stage_bibitems_streaming(bibitems, top_n, min_score) ==
    [open |-> TRUE, bibitems |-> bibitems, top_n |-> top_n,
     min_score |-> min_score, pos |-> 0, yielded |-> <<>>,
     exhausted |-> FALSE]

(* mutant: top_n and min_score are not passed on, the defaults 5 and 0.0  *)
(* apply                                                                   *)
StreamStep_default_args(g, idx, seed) ==
    [g EXCEPT
       !.pos = @ + 1,
       !.yielded = Append(@, stage_bibitem(g.bibitems[g.pos + 1], idx, 5, 0,
                                           seed))]

(* mutant: the loop runs one record ahead of the consumer when it can *)
StreamStep_prefetch(g, idx, seed) ==
    [g EXCEPT
       !.pos = Min(@ + 2, Len(g.bibitems)),
       !.yielded = Append(@, stage_bibitem(g.bibitems[Len(g.yielded) + 1], idx,
                                           g.top_n, g.min_score, seed))]

(* one turn of the generator's loop: stage the next record and yield it *)
StreamStep(g, idx, seed) ==
    [g EXCEPT
       !.pos = @ + 1,
       !.yielded = Append(@, stage_bibitem(g.bibitems[g.pos + 1], idx,
                                           g.top_n, g.min_score, seed))]

----------------------------------------------------------------------------
(* The state machine.  corpus and hashseed are the inputs of the process;  *)
(* index is the index once built.  The client holds one value at a time:   *)
(* last, its latest completed call with its arguments and result, or gen,  *)
(* the generator returned by stage_bibitems_streaming, which it consumes   *)
(* step by step; Discard drops the value before the next call.             *)

NoIndex == [built |-> FALSE]

NoCall == [op |-> "none", bibitems |-> <<>>, top_n |-> 0, min_score |-> 0,
           result |-> <<>>]

Call(op, bibitems, top_n, min_score, result) ==
    [op |-> op, bibitems |-> bibitems, top_n |-> top_n,
     min_score |-> min_score, result |-> result]

NoGen == [open |-> FALSE]

Built == index # NoIndex

Idle == last = NoCall /\ gen = NoGen

(* the threads that call stage_bibitem on the shared index *)
Threads == {"t1", "t2"}

IdleThread == [pc |-> "idle"]

NoThreads == [t \in Threads |-> IdleThread]

(* the local sets named candidates of the calls in progress, by owner *)
NoScratch == EmptyDict

(* no import_to_api call *)
NoImport == [pc |-> "none"]

(* an API nobody calls *)
NoApi == [store |-> EmptyDict, links |-> {}, calls |-> <<>>, faults |-> 0]

(* no fuzzy_match_procedure call *)
NoProc == [pc |-> "none"]

Init ==
    /\ corpus \in SeqsUpTo(Items, MaxCorpus)
    /\ hashseed \in HashSeeds
    /\ index = NoIndex
    /\ last = NoCall
    /\ gen = NoGen
    /\ threads = NoThreads
    /\ scratch = NoScratch
    /\ imp = NoImport
    /\ api = NoApi
    /\ proc = NoProc

(* index = build_index(corpus), on whichever path the import selects *)
BuildIndex ==
    /\ ~Built
    /\ \E use_rust \in BOOLEAN : index' = build_index(corpus, use_rust)
    /\ UNCHANGED <<corpus, hashseed, last, gen>>
    /\ UNCHANGED <<concVars, importVars, procVars>>

GetCandidateSet ==
    /\ Built /\ Idle
    /\ \E subject \in Subjects :
          /\ last' = Call("candidates", <<subject>>, 0, 0,
                          _get_candidate_set(subject, index))
          /\ index' = IndexAfterRetrieval(subject, index)
    /\ gen' = gen
    /\ UNCHANGED <<corpus, hashseed>>
    /\ UNCHANGED <<concVars, importVars, procVars>>

FindSimilar ==
    /\ Built /\ Idle
    /\ \E subject \in Subjects, top_n \in 0..MaxTopN, min_score \in MinScores :
          /\ last' = Call("find_similar", <<subject>>, top_n, min_score,
                          find_similar_bibitems(subject, index, top_n,
                                                min_score, hashseed))
          /\ index' = IndexAfterRetrieval(subject, index)
    /\ gen' = gen
    /\ UNCHANGED <<corpus, hashseed>>
    /\ UNCHANGED <<concVars, importVars, procVars>>

StageBibitem ==
    /\ Built /\ Idle
    /\ \E bibitem \in Subjects, top_n \in 0..MaxTopN, min_score \in MinScores :
          /\ last' = Call("stage", <<bibitem>>, top_n, min_score,
                          stage_bibitem(bibitem, index, top_n, min_score,
                                        hashseed))
          /\ index' = IndexAfterStage(bibitem, index)
    /\ gen' = gen
    /\ UNCHANGED <<corpus, hashseed>>
    /\ UNCHANGED <<concVars, importVars, procVars>>

StageBatch ==
    /\ Built /\ Idle
    /\ \E bibitems \in SeqsUpTo(BatchItems, MaxBatch), top_n \in 0..MaxTopN,
          min_score \in MinScores :
          /\ last' = Call("batch", bibitems, top_n, min_score,
                          stage_bibitems_batch(bibitems, index, top_n,
                                               min_score, hashseed))
          /\ index' = IndexAfterBatch(bibitems, 1, index)
    /\ gen' = gen
    /\ UNCHANGED <<corpus, hashseed>>
    /\ UNCHANGED <<concVars, importVars, procVars>>

(* stage_bibitems_streaming(...): returns a generator; no body code runs   *)
(* before the first next().                                                *)
StreamCreate ==
    /\ Built /\ Idle
    /\ \E bibitems \in SeqsUpTo(BatchItems, MaxBatch), top_n \in 0..MaxTopN,
          min_score \in MinScores :
          gen' = stage_bibitems_streaming(bibitems, top_n, min_score)
    /\ last' = last
    /\ UNCHANGED <<corpus, hashseed, index>>
    /\ UNCHANGED <<concVars, importVars, procVars>>

(* next(gen) with an input record left: the loop body stages it and yields *)
StreamNext ==
    /\ gen.open
    /\ gen.pos < Len(gen.bibitems)
    /\ gen' = StreamStep(gen, index, hashseed)
    /\ index' = IndexAfterStage(gen.bibitems[gen.pos + 1], index)
    /\ UNCHANGED <<corpus, hashseed, last>>
    /\ UNCHANGED <<concVars, importVars, procVars>>

(* next(gen) with no input record left: the loop ends, StopIteration; so   *)
(* does every later next(gen)                                              *)
StreamStop ==
    /\ gen.open
    /\ gen.pos >= Len(gen.bibitems)
    /\ gen' = [gen EXCEPT !.exhausted = TRUE]
    /\ UNCHANGED <<corpus, hashseed, index, last>>
    /\ UNCHANGED <<concVars, importVars, procVars>>

(* the client drops the result, or the generator wherever it stands *)
Discard ==
    /\ ~Idle
    /\ last' = NoCall
    /\ gen' = NoGen
    /\ UNCHANGED <<corpus, hashseed, index>>
    /\ UNCHANGED <<concVars, importVars, procVars>>

Next ==
    \/ BuildIndex
    \/ GetCandidateSet
    \/ FindSimilar
    \/ StageBibitem
    \/ StageBatch
    \/ StreamCreate
    \/ StreamNext
    \/ StreamStop
    \/ Discard

Spec == Init /\ [][Next]_vars

----------------------------------------------------------------------------
(* Interleaved staging.  Each thread runs stage_bibitem on the shared      *)
(* index; a step is one statement group of _get_candidate_set (the set()   *)
(* and the DOI test, each of the four lookups, the fallback and return) or *)
(* the ranking.  pc is the thread's position, phase says which of the two  *)
(* retrievals of stage_bibitem is running: its own (1) or the one inside   *)
(* find_similar_bibitems (2).                                              *)

(* the records the threads stage, and the corpus records of the            *)
(* interleaved runs                                                        *)
ConcQueries == {R2, R5, R6}

ConcItems == {R1, R3, R5}

(* mutant: candidates is one module-level set shared by all calls *)
Accumulator_shared(t) == "t1"

(* candidates = set() is a local of the call: each thread has its own *)
Accumulator(t) == t

(* the thread after its _get_candidate_set call has returned ret *)
Returned(th, ret) ==
    IF th.phase = 1
    THEN [th EXCEPT !.pc = "begin", !.phase = 2, !.searched = ret]
    ELSE [th EXCEPT !.pc = "rank", !.candidates = ret]

InitConc ==
    /\ corpus \in SeqsUpTo(ConcItems, MaxCorpus)
    /\ hashseed \in HashSeeds
    /\ index = NoIndex
    /\ last = NoCall
    /\ gen = NoGen
    /\ threads = NoThreads
    /\ scratch = NoScratch
    /\ imp = NoImport
    /\ api = NoApi
    /\ proc = NoProc

(* thread t calls stage_bibitem(bibitem, index, top_n, min_score) *)
Submit(t) ==
    /\ Built
    /\ threads[t].pc = "idle"
    /\ \E bibitem \in ConcQueries, min_score \in MinScores :
          threads' = [threads EXCEPT ![t] =
             [pc |-> "begin", phase |-> 1, bibitem |-> bibitem,
              top_n |-> MaxTopN, min_score |-> min_score,
              overlaps |-> \E u \in Threads \ {t} :
                              threads[u].pc \notin {"idle", "done"},
              searched |-> {}, candidates |-> {}, result |-> <<>>]]
    /\ UNCHANGED <<scratch, matcherVars, importVars, procVars>>

(* candidates = set(); the DOI test and its early return *)
Begin(t) ==
    /\ threads[t].pc = "begin"
    /\ scratch' = Put(scratch, Accumulator(t), {})
    /\ threads' = [threads EXCEPT ![t] =
          IF HasDoiHit(@.bibitem, index)
          THEN Returned(@, {index.doi_index[@.bibitem.doi]})
          ELSE [@ EXCEPT !.pc = "title"]]
    /\ UNCHANGED <<matcherVars, importVars, procVars>>

(* candidates.update(...) with what a lookup found, then on to next_pc *)
Accumulate(t, found, next_pc) ==
    /\ scratch' = [scratch EXCEPT ![Accumulator(t)] = @ \cup found]
    /\ threads' = [threads EXCEPT ![t].pc = next_pc]

LookupTitle(t) ==
    /\ threads[t].pc = "title"
    /\ LET keys == _extract_trigrams(threads[t].bibitem.title)
       IN  /\ Accumulate(t, Buckets(index.title_trigrams, keys), "surname")
           /\ index' = [index EXCEPT !.title_trigrams = Probed(@, keys)]
    /\ UNCHANGED <<corpus, hashseed, last, gen, importVars, procVars>>

LookupSurname(t) ==
    /\ threads[t].pc = "surname"
    /\ LET keys == _extract_author_surnames(threads[t].bibitem.author)
       IN  /\ Accumulate(t, Buckets(index.author_surnames, keys), "decade")
           /\ index' = [index EXCEPT !.author_surnames = Probed(@, keys)]
    /\ UNCHANGED <<corpus, hashseed, last, gen, importVars, procVars>>

LookupDecade(t) ==
    /\ threads[t].pc = "decade"
    /\ LET keys == DecadeKeys(threads[t].bibitem)
       IN  /\ Accumulate(t, Buckets(index.year_decades, keys), "journal")
           /\ index' = [index EXCEPT !.year_decades = Probed(@, keys)]
    /\ UNCHANGED <<corpus, hashseed, last, gen, importVars, procVars>>

LookupJournal(t) ==
    /\ threads[t].pc = "journal"
    /\ LET keys == JournalKeys(threads[t].bibitem)
       IN  /\ Accumulate(t, Buckets(index.journals, keys), "fallback")
           /\ index' = [index EXCEPT !.journals = Probed(@, keys)]
    /\ UNCHANGED <<corpus, hashseed, last, gen, importVars, procVars>>

(* if not candidates: return frozenset(index.all_items); else              *)
(* return frozenset(candidates)                                            *)
Finish(t) ==
    /\ threads[t].pc = "fallback"
    /\ LET candidates == scratch[Accumulator(t)]
       IN  threads' = [threads EXCEPT ![t] =
              Returned(@, IF candidates = {} THEN Range(index.all_items)
                          ELSE candidates)]
    /\ UNCHANGED <<scratch, matcherVars, importVars, procVars>>

(* the rest of find_similar_bibitems (score, filter, topk, Match) and of   *)
(* stage_bibitem (search_metadata, BibItemStaged)                          *)
Rank(t) ==
    /\ threads[t].pc = "rank"
    /\ LET th == threads[t]
           top_matches ==
               RankMatches(topk(th.top_n,
                                Filtered(th.bibitem, th.candidates,
                                         th.min_score, hashseed)))
           search_metadata ==
               [candidates_searched |-> Cardinality(th.searched)]
       IN  threads' = [threads EXCEPT ![t] =
              [th EXCEPT
                 !.pc = "done",
                 !.result = BibItemStaged(th.bibitem, top_matches,
                                          search_metadata)]]
    /\ UNCHANGED <<scratch, matcherVars, importVars, procVars>>

NextConc ==
    \/ BuildIndex
    \/ \E t \in Threads :
          \/ Submit(t)
          \/ Begin(t)
          \/ LookupTitle(t)
          \/ LookupSurname(t)
          \/ LookupDecade(t)
          \/ LookupJournal(t)
          \/ Finish(t)
          \/ Rank(t)

SpecConc == InitConc /\ [][NextConc]_vars

----------------------------------------------------------------------------
(* The import procedure (procedures/import_to_api.py) and the HTTP client  *)
(* it drives (adapters/api).  A file is its rows; a row is the row's key   *)
(* columns next to what the loaders parsed for it: how many authors the    *)
(* bibitem has and which of journal, publisher, institution, school and    *)
(* series it has.  The rows of the model have no editors, guest editors or *)
(* person.  The API is a store of entities by kind and key, a set of       *)
(* author links and the log of the requests it received; a request can     *)
(* fail (5xx) while the fault budget lasts.                                *)

EntityKinds ==
    <<"authors", "journals", "publishers", "institutions", "schools", "series">>

(* the kinds created from a single key column of the row *)
NamedKinds == Tail(EntityKinds)

StatKinds == Range(EntityKinds) \cup {"bibitems", "author_links"}

ImportStats == [created |-> 0, skipped |-> 0, failed |-> 0]

ImportResult == [stats |-> [k \in StatKinds |-> ImportStats], errors |-> <<>>]

Ok(out) == [ok |-> TRUE, out |-> out]

Err(message, code) == [ok |-> FALSE, message |-> message, code |-> code]

Row(bibkey, n_authors, author_keys, has, keys) ==
    [bibkey |-> bibkey, n_authors |-> n_authors, author_keys |-> author_keys,
     has |-> has, keys |-> keys]

(* one author with its key, a journal with its key *)
RowA == Row("k1", 1, <<"a1">>, {"journals"}, [k \in {"journals"} |-> "j1"])

(* two authors with their keys (one shared with RowA), a publisher with    *)
(* its key                                                                 *)
RowB ==
    Row("k2", 2, <<"a1", "a2">>, {"publishers"}, [k \in {"publishers"} |-> "p1"])

(* one author and no author key, a journal and no journal key *)
RowC == Row("k3", 1, <<>>, {"journals"}, EmptyDict)

(* a row without bibkey *)
RowD == Row("", 0, <<>>, {}, EmptyDict)

ImportRows == {RowA, RowB, RowC, RowD}

MissingFile == [exists |-> FALSE, rows |-> <<>>]

File(rows) == [exists |-> TRUE, rows |-> rows]

ImportFiles == {MissingFile} \cup {File(rows) : rows \in SeqsUpTo(ImportRows, MaxRows)}

(* what the API holds before the import: nothing, or an author and a       *)
(* bibitem of RowA                                                         *)
ApiStores ==
    {EmptyDict, (<<"authors", "a1">> :> 1) @@ (<<"bibitems", "k1">> :> 2)}

_validate_key_count(keys, n_entities, field_name, bibkey) ==
    IF Len(keys) # n_entities THEN << <<bibkey, field_name>> >> ELSE <<>>

(* the validation errors of one row *)
RowErrors(row) ==
    LET unkeyed == SelectSeq(NamedKinds,
                             LAMBDA k : k \in row.has
                                        /\ Lookup(row.keys, k, "") = "")
    IN  _validate_key_count(row.author_keys, row.n_authors, "author", row.bibkey)
        \o [i \in 1..Len(unkeyed) |-> <<row.bibkey, unkeyed[i]>>]

(* mutant: the rows that fail validation are left out and the rest loaded *)
_load_and_parse_file_skip_invalid(file) ==
    IF ~file.exists THEN Err("File not found", 1)
    ELSE IF file.rows = <<>> THEN Err("file is empty", 1)
    ELSE Ok(SelectSeq(file.rows,
                      LAMBDA r : r.bibkey # "" /\ RowErrors(r) = <<>>))

_load_and_parse_file(file) ==
    IF ~file.exists THEN Err("File not found", 1)
    ELSE IF file.rows = <<>> THEN Err("file is empty", 1)
    ELSE LET keyed == SelectSeq(file.rows, LAMBDA r : r.bibkey # "")
             errors == Flatten([i \in 1..Len(keyed) |-> RowErrors(keyed[i])])
         IN  IF errors # <<>> THEN Err("Validation errors", 1) ELSE Ok(keyed)

(* the keys of the dict _extract_unique_authors returns, in its order *)
_extract_unique_authors(rows) ==
    Unique(Flatten([i \in 1..Len(rows) |->
              SelectSeq(SubSeq(rows[i].author_keys, 1,
                               Min(rows[i].n_authors, Len(rows[i].author_keys))),
                        LAMBDA k : k # "")]))

(* the keys of the dict _extract_unique_journals, ..._publishers,          *)
(* ..._institutions, ..._schools or ..._series returns, in its order       *)
_extract_unique_named(rows, kind) ==
    Unique(SelectSeq([i \in 1..Len(rows) |->
                         IF kind \in rows[i].has
                         THEN Lookup(rows[i].keys, kind, "") ELSE ""],
                     LAMBDA k : k # ""))

(* Steps 3 to 8: one get_or_create per unique entity, kind after kind *)
EntityWork(rows) ==
    Flatten([j \in 1..Len(EntityKinds) |->
        LET kind == EntityKinds[j]
            keys == IF kind = "authors" THEN _extract_unique_authors(rows)
                    ELSE _extract_unique_named(rows, kind)
        IN  [i \in 1..Len(keys) |->
                [step |-> "entity", kind |-> kind, key |-> keys[i]]]])

(* Step 9: one bibitem per row *)
BibitemWork(rows) == [i \in 1..Len(rows) |-> [step |-> "bibitem", row |-> i]]

(* Step 10: one author link per row and author key *)
LinkWork(rows) ==
    Flatten([i \in 1..Len(rows) |->
        [p \in 1..Len(rows[i].author_keys) |->
            [step |-> "link", row |-> i, position |-> p]]])

(* the API after it has logged a request and the status it answered *)
Logged(a, method, kind, key, status) ==
    [a EXCEPT !.calls = Append(@, <<method, kind, key, status>>)]

(* ApiClient._request: the API after the request, and the response *)
_request(a, method, kind, key, fault) ==
    IF fault
    THEN [api |-> [Logged(a, method, kind, key, 500) EXCEPT !.faults = @ - 1],
          resp |-> Err("server error", 500)]
    ELSE IF method = "GET"
    THEN IF <<kind, key>> \in DOMAIN a.store
         THEN [api |-> Logged(a, method, kind, key, 200),
               resp |-> Ok(a.store[<<kind, key>>])]
         ELSE [api |-> Logged(a, method, kind, key, 404),
               resp |-> Err("not found", 404)]
    ELSE IF <<kind, key>> \in DOMAIN a.store
    THEN [api |-> Logged(a, method, kind, key, 409),
          resp |-> Err("conflict", 409)]
    ELSE LET id == Cardinality(DOMAIN a.store) + 1
         IN  [api |-> [Logged(a, method, kind, key, 201)
                          EXCEPT !.store = Put(@, <<kind, key>>, id)],
              resp |-> Ok(id)]

(* ApiClient.get_or_create_author, ..._journal, ..._publisher,             *)
(* ..._institution, ..._school, ..._series, ..._bibitem: create, and on    *)
(* 409 fetch the existing entity by its key                                *)
get_or_create(a, kind, key, fault1, fault2) ==
    LET result == _request(a, "POST", kind, key, fault1)
    IN  IF result.resp.ok THEN result
        ELSE IF result.resp.code = 409
        THEN _request(result.api, "GET", kind, key, fault2)
        ELSE result

(* ApiClient.add_bibitem_author: a link that already exists (409) is fine *)
add_bibitem_author(a, bibitem_id, author_id, position, fault) ==
    LET link == <<bibitem_id, author_id, "author", position>>
    IN  IF fault
        THEN [api |-> [Logged(a, "POST", "author_links", link, 500)
                          EXCEPT !.faults = @ - 1],
              resp |-> Err("server error", 500)]
        ELSE IF link \in a.links
        THEN [api |-> Logged(a, "POST", "author_links", link, 409),
              resp |-> Ok(None)]
        ELSE [api |-> [Logged(a, "POST", "author_links", link, 201)
                          EXCEPT !.links = @ \cup {link}],
              resp |-> Ok(None)]

(* the counters and errors after one create_result of the given kind; an   *)
(* entry of errors is the pair of what failed and its key or message       *)
Counted(result, kind, key, create_result) ==
    IF create_result.ok
    THEN [result EXCEPT !.stats[kind].created = @ + 1]
    ELSE IF create_result.code = 409
    THEN [result EXCEPT !.stats[kind].skipped = @ + 1]
    ELSE [result EXCEPT !.stats[kind].failed = @ + 1,
                        !.errors = Append(@, <<kind, key>>)]

(* import_to_api called with a file and dry_run *)
ImportCall(file, dry_run) ==
    [pc |-> "start", file |-> file, dry_run |-> dry_run, rows |-> <<>>,
     work |-> <<>>, ids |-> EmptyDict, result |-> ImportResult]

(* mutant: the dry_run test is missing *)
AfterLoad_dry_run_ignored(i, parse_result) ==
    IF ~parse_result.ok
    THEN [i EXCEPT !.pc = "returned",
                   !.result.errors = Append(@, <<"load", parse_result.message>>)]
    ELSE [i EXCEPT !.pc = "client", !.rows = parse_result.out,
                   !.work = EntityWork(parse_result.out)
                            \o BibitemWork(parse_result.out)
                            \o LinkWork(parse_result.out)]

(* import_to_api after Step 1: return on Err, return on dry_run, or go on  *)
(* to the API with the work of Steps 3 to 10 ahead                         *)
AfterLoad(i, parse_result) ==
    IF ~parse_result.ok
    THEN [i EXCEPT !.pc = "returned",
                   !.result.errors = Append(@, <<"load", parse_result.message>>)]
    ELSE IF i.dry_run
    THEN [i EXCEPT !.pc = "returned", !.rows = parse_result.out]
    ELSE [i EXCEPT !.pc = "client", !.rows = parse_result.out,
                   !.work = EntityWork(parse_result.out)
                            \o BibitemWork(parse_result.out)
                            \o LinkWork(parse_result.out)]

InitImport ==
    /\ corpus = <<>>
    /\ hashseed = "fwd"
    /\ index = NoIndex
    /\ last = NoCall
    /\ gen = NoGen
    /\ threads = NoThreads
    /\ scratch = NoScratch
    /\ imp \in {ImportCall(file, dry_run) :
                    file \in ImportFiles, dry_run \in BOOLEAN}
    /\ api \in {[store |-> store, links |-> {}, calls |-> <<>>,
                 faults |-> MaxFaults] : store \in ApiStores}
    /\ proc = NoProc

(* Step 1 and the two early returns *)
Load ==
    /\ imp.pc = "start"
    /\ imp' = AfterLoad(imp, _load_and_parse_file(imp.file))
    /\ UNCHANGED <<api, matcherVars, concVars, procVars>>

(* one turn of one of the loops of Steps 3 to 8 *)
CreateEntity ==
    /\ imp.pc = "client"
    /\ imp.work # <<>>
    /\ Head(imp.work).step = "entity"
    /\ \E fault1, fault2 \in BOOLEAN :
          LET w == Head(imp.work)
              got == get_or_create(api, w.kind, w.key, fault1, fault2)
          IN  /\ got.api.faults >= 0
              /\ api' = got.api
              /\ imp' = [imp EXCEPT
                    !.work = Tail(@),
                    !.ids = IF got.resp.ok
                            THEN Put(@, <<w.kind, w.key>>, got.resp.out)
                            ELSE @,
                    !.result = Counted(@, w.kind, w.key, got.resp)]
    /\ UNCHANGED <<matcherVars, concVars, procVars>>

(* one turn of the loop of Step 9 *)
CreateBibitem ==
    /\ imp.pc = "client"
    /\ imp.work # <<>>
    /\ Head(imp.work).step = "bibitem"
    /\ \E fault1, fault2, fault3 \in BOOLEAN :
          LET bibkey == imp.rows[Head(imp.work).row].bibkey
              got == get_or_create(api, "bibitems", bibkey, fault1, fault2)
              conflict == ~got.resp.ok /\ got.resp.code = 409
              existing == _request(got.api, "GET", "bibitems", bibkey, fault3)
              after == IF conflict THEN existing.api ELSE got.api
          IN  /\ after.faults >= 0
              /\ api' = after
              /\ imp' = [imp EXCEPT
                    !.work = Tail(@),
                    !.ids = IF got.resp.ok
                            THEN Put(@, <<"bibitems", bibkey>>, got.resp.out)
                            ELSE IF conflict /\ existing.resp.ok
                            THEN Put(@, <<"bibitems", bibkey>>, existing.resp.out)
                            ELSE @,
                    !.result = Counted(@, "bibitems", bibkey, got.resp)]
    /\ UNCHANGED <<matcherVars, concVars, procVars>>

(* one turn of the author loop of Step 10; an id that is missing (or 0)    *)
(* means no request                                                        *)
LinkAuthor ==
    /\ imp.pc = "client"
    /\ imp.work # <<>>
    /\ Head(imp.work).step = "link"
    /\ LET w == Head(imp.work)
           row == imp.rows[w.row]
           author_key == row.author_keys[w.position]
           bibitem_id == Lookup(imp.ids, <<"bibitems", row.bibkey>>, 0)
           author_id == Lookup(imp.ids, <<"authors", author_key>>, 0)
       IN  IF bibitem_id = 0 \/ author_id = 0
           THEN /\ api' = api
                /\ imp' = [imp EXCEPT !.work = Tail(@)]
           ELSE \E fault \in BOOLEAN :
                   LET got == add_bibitem_author(api, bibitem_id, author_id,
                                                 w.position, fault)
                   IN  /\ got.api.faults >= 0
                       /\ api' = got.api
                       /\ imp' = [imp EXCEPT
                             !.work = Tail(@),
                             !.result = Counted(@, "author_links",
                                                author_key, got.resp)]
    /\ UNCHANGED <<matcherVars, concVars, procVars>>

(* the client is closed and the result returned *)
ReturnResult ==
    /\ imp.pc = "client"
    /\ imp.work = <<>>
    /\ imp' = [imp EXCEPT !.pc = "returned"]
    /\ UNCHANGED <<api, matcherVars, concVars, procVars>>

NextImport ==
    \/ Load
    \/ CreateEntity
    \/ CreateBibitem
    \/ LinkAuthor
    \/ ReturnResult

SpecImport == InitImport /\ [][NextImport]_vars

----------------------------------------------------------------------------
(* The fuzzy matching procedure (procedures/fuzzy_matching.py).  The two   *)
(* loaders and the report writer are injected functions: each is the       *)
(* result it returns.  corpus is tuple(bibliography.values()) of the       *)
(* bibliography file, whose bibkeys are distinct.  build_index and         *)
(* stage_bibitems_batch raise nothing on BibItems, so the two except       *)
(* branches have no transition.                                            *)

ProcSteps ==
    <<"load_bibliography", "load_staged", "build_index", "stage_bibitems_batch", "write_report">>

(* the bibliographies: tuples of distinct records *)
Bibliographies ==
    {b \in SeqsUpTo(ConcItems, MaxCorpus) : Cardinality(Range(b)) = Len(b)}

(* what the injected functions return *)
ProcEnvs(bibliography) ==
    [bibliography_result : {Err("no bibliography", 1), Ok(bibliography)},
     staged_result : {Err("no staged items", 2)}
                       \cup {Ok(items) : items \in SeqsUpTo(BatchItems, MaxBatch)},
     write_result : {Err("report not written", 3), Ok(None)}]

(* fuzzy_match_procedure called with the injected functions, top_n and     *)
(* min_score                                                               *)
ProcCall(env, top_n, min_score) ==
    [pc |-> "start", env |-> env, top_n |-> top_n, min_score |-> min_score,
     log |-> <<>>, bibliography |-> <<>>, staged_items |-> <<>>,
     staged_with_matches |-> <<>>, ret |-> None]

(* the procedure has called one of its steps *)
Called(p, step) == [p EXCEPT !.log = Append(@, step)]

(* return result *)
Return(p, result) == [p EXCEPT !.pc = "returned", !.ret = Some(result)]

(* mutant: a bibliography that fails to load counts as an empty one *)
AfterLoadBibliography_err_as_empty(p, bibliography_result) ==
    IF ~bibliography_result.ok
    THEN [p EXCEPT !.pc = "load_staged", !.bibliography = <<>>]
    ELSE [p EXCEPT !.pc = "load_staged", !.bibliography = bibliography_result.out]

(* Step a, after load_bibliography has returned *)
AfterLoadBibliography(p, bibliography_result) ==
    IF ~bibliography_result.ok THEN Return(p, bibliography_result)
    ELSE [p EXCEPT !.pc = "load_staged", !.bibliography = bibliography_result.out]

(* Step b, after load_staged has returned *)
AfterLoadStaged(p, staged_result) ==
    IF ~staged_result.ok THEN Return(p, staged_result)
    ELSE IF staged_result.out = <<>> THEN Return(p, Ok(None))
    ELSE [p EXCEPT !.pc = "build_index", !.staged_items = staged_result.out]

(* Step e, after write_report has returned *)
AfterWriteReport(p, write_result) ==
    IF ~write_result.ok THEN Return(p, write_result) ELSE Return(p, Ok(None))

InitProc ==
    /\ corpus \in Bibliographies
    /\ hashseed \in HashSeeds
    /\ index = NoIndex
    /\ last = NoCall
    /\ gen = NoGen
    /\ threads = NoThreads
    /\ scratch = NoScratch
    /\ imp = NoImport
    /\ api = NoApi
    /\ proc \in {ProcCall(env, MaxTopN, 0) : env \in ProcEnvs(corpus)}

LoadBibliography ==
    /\ proc.pc = "start"
    /\ proc' = AfterLoadBibliography(Called(proc, "load_bibliography"),
                                     proc.env.bibliography_result)
    /\ UNCHANGED <<matcherVars, concVars, importVars>>

LoadStaged ==
    /\ proc.pc = "load_staged"
    /\ proc' = AfterLoadStaged(Called(proc, "load_staged"),
                               proc.env.staged_result)
    /\ UNCHANGED <<matcherVars, concVars, importVars>>

(* Step c *)
BuildProcIndex ==
    /\ proc.pc = "build_index"
    /\ \E use_rust \in BOOLEAN : index' = build_index(proc.bibliography, use_rust)
    /\ proc' = [Called(proc, "build_index") EXCEPT !.pc = "stage"]
    /\ UNCHANGED <<corpus, hashseed, last, gen, concVars, importVars>>

(* Step d: one turn of the generator inside stage_bibitems_batch; the call *)
(* is logged when it starts                                                *)
StageNext ==
    /\ proc.pc = "stage"
    /\ Len(proc.staged_with_matches) < Len(proc.staged_items)
    /\ LET bibitem == proc.staged_items[Len(proc.staged_with_matches) + 1]
           p == IF proc.staged_with_matches = <<>>
                THEN Called(proc, "stage_bibitems_batch") ELSE proc
       IN  /\ proc' = [p EXCEPT !.staged_with_matches =
                          Append(@, stage_bibitem(bibitem, index, proc.top_n,
                                                  proc.min_score, hashseed))]
           /\ index' = IndexAfterStage(bibitem, index)
    /\ UNCHANGED <<corpus, hashseed, last, gen, concVars, importVars>>

(* Step e *)
WriteReport ==
    /\ proc.pc = "stage"
    /\ Len(proc.staged_with_matches) = Len(proc.staged_items)
    /\ proc' = AfterWriteReport(Called(proc, "write_report"),
                                proc.env.write_result)
    /\ UNCHANGED <<matcherVars, concVars, importVars>>

NextProc ==
    \/ LoadBibliography
    \/ LoadStaged
    \/ BuildProcIndex
    \/ StageNext
    \/ WriteReport

SpecProc == InitProc /\ [][NextProc]_vars

----------------------------------------------------------------------------
(* Properties.                                                             *)

(* the subject of the latest single-record call *)
Query == last.bibitems[1]

Abs(x) == IF x < 0 THEN -x ELSE x

Total(candidate, subject) ==
    SumWeighted(compare_bibitems_detailed(candidate, subject))

MatchedItems(matches) == {matches[i].matched_bibitem : i \in 1..Len(matches)}

SharesTextFeature(q, r) ==
    \/ _extract_trigrams(q.title) \cap _extract_trigrams(r.title) # {}
    \/ _extract_author_surnames(q.author)
         \cap _extract_author_surnames(r.author) # {}
    \/ /\ JournalName(q) # None /\ JournalName(q)[1] # <<>>
       /\ JournalName(q) = JournalName(r)

SharesFeature(q, r) ==
    \/ q.doi # "" /\ q.doi = r.doi
    \/ SharesTextFeature(q, r)
    \/ q.date = None /\ r.date = None
    \/ /\ q.date # None /\ r.date # None
       /\ Abs(_get_decade(q.date)[1] - _get_decade(r.date)[1]) <= 50

(* C1: candidate retrieval over a non-empty corpus never returns the empty *)
(* set, also for a query that shares no identifier, trigram, surname,      *)
(* decade window or journal with any corpus record.                        *)
C1_CandidatesNonEmpty ==
    (last.op = "candidates" /\ corpus # <<>>) => last.result # {}

C1_Witness ==
    /\ last.op = "candidates"
    /\ corpus # <<>>
    /\ \A r \in Range(corpus) : ~SharesFeature(Query, r)
    /\ last.result = Range(corpus)

(* C2 as stated: for any corpus record r with a non-empty identifier and a *)
(* query carrying the same identifier, retrieval returns exactly {r}.      *)
C2_Original ==
    last.op = "candidates" =>
        \A i \in 1..Len(corpus) :
            (corpus[i].doi # "" /\ Query.doi = corpus[i].doi)
                => last.result = {corpus[i]}

(* C2 amended: the same, for the corpus record r that no later corpus      *)
(* record shares its identifier with (the last record carrying it).        *)
C2_LastWithIdentifier ==
    last.op = "candidates" =>
        \A i \in 1..Len(corpus) :
            (/\ corpus[i].doi # ""
             /\ Query.doi = corpus[i].doi
             /\ \A j \in (i + 1)..Len(corpus) : corpus[j].doi # corpus[i].doi)
                => last.result = {corpus[i]}

C2_Witness ==
    /\ last.op = "candidates"
    /\ Len(corpus) = 2
    /\ corpus[1] # corpus[2]
    /\ corpus[1].doi # "" /\ corpus[1].doi = corpus[2].doi
    /\ Query.doi = corpus[2].doi
    /\ Query.title # corpus[2].title /\ Query.date # corpus[2].date
    /\ last.result = {corpus[2]}

(* C3: find_similar_bibitems returns at most top_n matches, their ranks    *)
(* are 1, 2, ..., length in tuple order, and total_score never increases   *)
(* along the tuple.                                                        *)
C3_TopNRanked ==
    last.op = "find_similar" =>
        /\ Len(last.result) <= last.top_n
        /\ \A i \in 1..Len(last.result) : last.result[i].rank = i
        /\ \A i \in 1..(Len(last.result) - 1) :
              last.result[i].total_score >= last.result[i + 1].total_score

(* two matches of different totals that the candidate set iterates in the  *)
(* other order                                                             *)
C3_Witness ==
    /\ last.op = "find_similar"
    /\ Len(last.result) = 2
    /\ last.result[1].total_score > last.result[2].total_score
    /\ Iterate(MatchedItems(last.result), hashseed)
         = <<last.result[2].matched_bibitem, last.result[1].matched_bibitem>>

(* C4: every returned match has total_score >= min_score, and the bound is *)
(* inclusive: a candidate whose total equals min_score is left out only    *)
(* when top_n matches are returned.                                        *)
C4_MinScoreInclusive ==
    last.op = "find_similar" =>
        /\ \A i \in 1..Len(last.result) :
              last.result[i].total_score >= last.min_score
        /\ \A c \in _get_candidate_set(Query, index) :
              (Total(c, Query) = last.min_score
               /\ c \notin MatchedItems(last.result))
                  => Len(last.result) = last.top_n

(* a positive threshold met exactly by a returned match, and a candidate   *)
(* below it left out                                                       *)
C4_Witness ==
    /\ last.op = "find_similar"
    /\ last.min_score > 0
    /\ \E i \in 1..Len(last.result) :
          last.result[i].total_score = last.min_score
    /\ \E c \in _get_candidate_set(Query, index) :
          Total(c, Query) < last.min_score /\ c \notin MatchedItems(last.result)
    /\ Len(last.result) < last.top_n

(* P holds of each of the four bucket mappings of the index *)
EachBucketMap(P(_)) ==
    /\ P(index.title_trigrams)
    /\ P(index.author_surnames)
    /\ P(index.year_decades)
    /\ P(index.journals)

BucketsWithinAllItems(m) ==
    \A k \in DOMAIN m : m[k] \subseteq Range(index.all_items)

IsEmptyDict(m) == DOMAIN m = {}

IsNonEmptyDict(m) == DOMAIN m # {}

(* C5: the built index has all_items equal to the input records in their   *)
(* order, and every record of a bucket or of the identifier mapping is an  *)
(* element of all_items.                                                   *)
C5_AllItemsAndBuckets ==
    Built =>
        /\ index.all_items = corpus
        /\ \A d \in DOMAIN index.doi_index :
              index.doi_index[d] \in Range(index.all_items)
        /\ EachBucketMap(BucketsWithinAllItems)

(* a corpus that repeats a record, with non-empty buckets *)
C5_Witness ==
    /\ Built
    /\ Len(corpus) = 2 /\ corpus[1] = corpus[2]
    /\ DOMAIN index.doi_index # {}
    /\ EachBucketMap(IsNonEmptyDict)

(* C6: the index of the empty corpus has all_items empty and its five      *)
(* mappings empty.                                                         *)
C6_EmptyCorpusEmptyIndex ==
    (Built /\ corpus = <<>>) =>
        /\ index.all_items = <<>>
        /\ DOMAIN index.doi_index = {}
        /\ EachBucketMap(IsEmptyDict)

C6_Witness == Built /\ corpus = <<>> /\ Len(index.all_items) = 0

(* C7: stage_bibitems_batch over N records returns N staged items, the     *)
(* i-th carrying the i-th input record, each with candidates_searched at   *)
(* most the number M of corpus records.                                    *)
C7_BatchOnePerInput ==
    last.op = "batch" =>
        /\ Len(last.result) = Len(last.bibitems)
        /\ \A i \in 1..Len(last.result) :
              /\ last.result[i].bibitem = last.bibitems[i]
              /\ last.result[i].search_metadata.candidates_searched
                    <= Len(corpus)

(* a batch that repeats a record, over a corpus of two, with a staged item *)
(* that searched fewer candidates than the corpus holds                    *)
C7_Witness ==
    /\ last.op = "batch"
    /\ Len(last.bibitems) = 2 /\ last.bibitems[1] = last.bibitems[2]
    /\ Len(corpus) = 2
    /\ last.result[1].search_metadata.candidates_searched = 1
    /\ Len(last.result) = 2

(* C8: candidates_searched of stage_bibitem is the number of records of    *)
(* the candidate set retrieval produces for the query, and the ranking of  *)
(* the same call scores that set: its matches are members of it, and with  *)
(* no threshold and top_n not below that number every one of them is       *)
(* matched.                                                                *)
C8_CandidatesSearchedExact ==
    last.op = "stage" =>
        LET cands == _get_candidate_set(Query, index)
            searched == last.result.search_metadata.candidates_searched
        IN  /\ searched = Cardinality(cands)
            /\ MatchedItems(last.result.top_matches) \subseteq cands
            /\ (last.min_score = 0 /\ last.top_n >= searched)
                  => Len(last.result.top_matches) = searched

(* fewer candidates than corpus records, all of them matched *)
C8_Witness ==
    /\ last.op = "stage"
    /\ last.result.search_metadata.candidates_searched = 1
    /\ Len(corpus) = 2 /\ corpus[1] # corpus[2]
    /\ Len(last.result.top_matches) = 1

(* C9: a stream consumed to exhaustion has yielded one staged item per     *)
(* input record, and the sequence it yielded is the tuple                  *)
(* stage_bibitems_batch returns for the same arguments.                    *)
C9_StreamEqualsBatch ==
    (gen.open /\ gen.exhausted) =>
        /\ Len(gen.yielded) = Len(gen.bibitems)
        /\ gen.yielded = stage_bibitems_batch(gen.bibitems, index, gen.top_n,
                                               gen.min_score, hashseed)

(* an exhausted stream of two different records, one of them with a match  *)
(* left out by top_n                                                       *)
C9_Witness ==
    /\ gen.open /\ gen.exhausted
    /\ Len(gen.bibitems) = 2 /\ gen.bibitems[1] # gen.bibitems[2]
    /\ Len(gen.yielded) = 2
    /\ \E i \in 1..2 :
          /\ Len(gen.yielded[i].top_matches) = gen.top_n
          /\ gen.yielded[i].search_metadata.candidates_searched > gen.top_n

(* C10: for a dated query without identifier hit, every corpus record      *)
(* whose decade bucket lies within 5 decades of the query's is a           *)
(* candidate, hence every corpus record dated at most 50 years before or   *)
(* after the query.                                                        *)
C10_DecadeWindow ==
    (last.op = "candidates" /\ Query.date # None /\ ~HasDoiHit(Query, index)) =>
        \A r \in Range(corpus) :
            r.date # None =>
                /\ Abs(_get_decade(r.date)[1] - _get_decade(Query.date)[1]) <= 50
                      => r \in last.result
                /\ Abs(r.date[1] - Query.date[1]) <= 50 => r \in last.result

(* a 1950 record retrieved for a 2000 query that shares nothing else with  *)
(* it, next to a 1949 record that is not retrieved                         *)
C10_Witness ==
    /\ last.op = "candidates"
    /\ Query.date = Some(2000)
    /\ ~HasDoiHit(Query, index)
    /\ \E r \in Range(corpus) :
          /\ r.date = Some(1950)
          /\ ~SharesTextFeature(Query, r)
          /\ r \in last.result
    /\ \E r \in Range(corpus) : r.date = Some(1949) /\ r \notin last.result

SharesTrigram(q, r) ==
    _extract_trigrams(q.title) \cap _extract_trigrams(r.title) # {}

SharesSurname(q, r) ==
    _extract_author_surnames(q.author) \cap _extract_author_surnames(r.author)
        # {}

(* C11: for a query with no date and no identifier hit, every dated corpus *)
(* record that shares a title trigram or a normalised surname with the     *)
(* query is in the candidate set.                                          *)
C11_DatelessRetrieval ==
    (last.op = "candidates" /\ Query.date = None /\ ~HasDoiHit(Query, index)) =>
        \A r \in Range(corpus) :
            (r.date # None /\ (SharesTrigram(Query, r) \/ SharesSurname(Query, r)))
                => r \in last.result

(* a dateless query that finds a record in the bucket of the dateless      *)
(* records, and retrieves one dated record by a trigram alone or by a      *)
(* surname alone                                                           *)
C11_Witness ==
    /\ last.op = "candidates"
    /\ Query.date = None
    /\ ~HasDoiHit(Query, index)
    /\ \E r \in Range(corpus) : r.date = None /\ r \in last.result
    /\ \E r \in Range(corpus) :
          /\ r.date # None
          /\ SharesTrigram(Query, r) # SharesSurname(Query, r)
          /\ r \in last.result

(* q's title is r's title behind leading noise characters, and r's         *)
(* normalised title has at least 3 characters                              *)
NoisyCopyOf(q, r) ==
    /\ Len(Normalize(r.title)) >= 3
    /\ Len(q.title) > Len(r.title)
    /\ SubSeq(q.title, Len(q.title) - Len(r.title) + 1, Len(q.title)) = r.title

(* C12: when the query's title is a corpus record's title (of at least 3   *)
(* normalised characters) behind leading noise, the query's trigrams       *)
(* contain the record's and, absent an identifier hit, the record is a     *)
(* candidate; in a one-record corpus it is returned as a match whenever    *)
(* its total is at least min_score and top_n >= 1.                         *)
C12_TrigramTolerance ==
    /\ (last.op = "candidates" /\ ~HasDoiHit(Query, index)) =>
          \A r \in Range(corpus) :
              NoisyCopyOf(Query, r) =>
                  /\ _extract_trigrams(r.title) \subseteq
                         _extract_trigrams(Query.title)
                  /\ r \in last.result
    /\ (/\ last.op = "find_similar"
        /\ ~HasDoiHit(Query, index)
        /\ Len(corpus) = 1
        /\ NoisyCopyOf(Query, corpus[1])
        /\ Total(corpus[1], Query) >= last.min_score
        /\ last.top_n >= 1)
          => MatchedItems(last.result) = {corpus[1]}

(* the noisy query retrieves the record while another corpus record is not *)
(* retrieved (so the record is not there by the fallback), and the record  *)
(* shares neither surname nor decade bucket nor journal with the query     *)
C12_Witness ==
    /\ last.op = "candidates"
    /\ ~HasDoiHit(Query, index)
    /\ Range(corpus) \ last.result # {}
    /\ \E r \in Range(corpus) :
          /\ NoisyCopyOf(Query, r)
          /\ ~SharesSurname(Query, r)
          /\ r.date # Query.date
          /\ r \in last.result

(* floor(year / 10) * 10 for a dated record, the unknown bucket otherwise *)
DecadeBucket(r) ==
    IF r.date = None THEN None ELSE Some(r.date[1] - (r.date[1] % 10))

(* C13: every corpus record is in all_items and in exactly one decade      *)
(* bucket, the one of floor(year / 10) * 10 when dated and the unknown     *)
(* bucket when dateless, so the union of the decade buckets is the set of  *)
(* corpus records.                                                         *)
C13_NoRecordDropped ==
    Built =>
        /\ \A r \in Range(corpus) :
              /\ r \in Range(index.all_items)
              /\ DecadeBucket(r) \in DOMAIN index.year_decades
              /\ \A k \in DOMAIN index.year_decades :
                    r \in index.year_decades[k] <=> k = DecadeBucket(r)
        /\ UNION {index.year_decades[k] : k \in DOMAIN index.year_decades}
              = Range(corpus)

(* a corpus of a record without identifier, title, authors, date and       *)
(* journal and of a record dated in the last year of a decade              *)
C13_Witness ==
    /\ Built
    /\ \E r \in Range(corpus) :
          /\ r.doi = "" /\ r.title = <<>> /\ r.author = <<>> /\ r.journal = None
          /\ r \in index.year_decades[None]
    /\ \E r \in Range(corpus) :
          r.date # None /\ r.date[1] % 10 = 9 /\ r \in index.year_decades[Some(1940)]

(* C14: once build_index has returned, no step of any sequence of          *)
(* candidate retrievals, find_similar_bibitems, stage_bibitem,             *)
(* stage_bibitems_batch and stage_bibitems_streaming calls changes the     *)
(* index's five mappings or all_items.                                     *)
C14_IndexNeverMutated == [][Built => index' = index]_vars

(* a batch of two different queries has run, one of them looked up a       *)
(* trigram the index has no bucket for, and the index still is the one     *)
(* build_index returned                                                    *)
C14_Witness ==
    /\ last.op = "batch"
    /\ Len(last.bibitems) = 2 /\ last.bibitems[1] # last.bibitems[2]
    /\ corpus # <<>>
    /\ \E i \in 1..2 :
          /\ ~HasDoiHit(last.bibitems[i], index)
          /\ _extract_trigrams(last.bibitems[i].title)
                \ DOMAIN index.title_trigrams # {}
    /\ index = _build_index_python(corpus)

(* C15: a stage operation that ran interleaved with others on the shared   *)
(* index returns the staged item (the same matches, the same               *)
(* candidates_searched) that stage_bibitem returns for its arguments when  *)
(* it runs alone on that index.                                            *)
C15_InterleavedAsAlone ==
    \A t \in Threads :
        threads[t].pc = "done" =>
            threads[t].result =
                stage_bibitem(threads[t].bibitem, index, threads[t].top_n,
                              threads[t].min_score, hashseed)

(* two operations for different queries have both returned, one started    *)
(* while the other was in progress, with different candidate sets, one of  *)
(* them smaller than the corpus, and a match each                          *)
C15_Witness ==
    /\ \A t \in Threads : threads[t].pc = "done"
    /\ \E t \in Threads : threads[t].overlaps
    /\ threads["t1"].bibitem # threads["t2"].bibitem
    /\ threads["t1"].searched # threads["t2"].searched
    /\ \E t \in Threads : Cardinality(threads[t].searched) < Len(corpus)
    /\ \A t \in Threads : threads[t].result.top_matches # <<>>

(* the index of the corpus on the native path and on the reference path *)
NativeIndex ==
    _reconstruct_index_from_rust(
        build_index_rust(_prepare_items_for_rust(corpus)), corpus)

ReferenceIndex == _build_index_python(corpus)

C17_EmptyResultIsNormal ==
    /\ last.op = "find_similar" =>
          LET candidates == _get_candidate_set(Query, index)
          IN  /\ (\/ candidates = {}
                  \/ \A c \in candidates : Total(c, Query) < last.min_score)
                    => last.result = <<>>
              /\ candidates = {} => corpus = <<>>
    /\ (last.op = "candidates" /\ last.result = {}) => corpus = <<>>

(* a call with top_n >= 1 over a non-empty candidate set, smaller than the *)
(* corpus, whose totals are all below min_score, returned the empty tuple  *)
C17_Witness ==
    /\ last.op = "find_similar"
    /\ last.top_n >= 1
    /\ last.result = <<>>
    /\ _get_candidate_set(Query, index) # {}
    /\ Cardinality(_get_candidate_set(Query, index)) < Len(corpus)
    /\ \A c \in _get_candidate_set(Query, index) :
          Total(c, Query) < last.min_score

(* the corpus records that share a title trigram, a surname or the         *)
(* normalised journal name with q, or lie in q's decade window (in the     *)
(* unknown bucket when q is dateless), read off the records themselves     *)
FeatureUnion(q) ==
    {r \in Range(corpus) :
        \/ SharesTextFeature(q, r)
        \/ q.date = None /\ r.date = None
        \/ /\ q.date # None /\ r.date # None
           /\ Abs(DecadeBucket(q)[1] - DecadeBucket(r)[1]) <= 50}

(* C19 as stated: without identifier hit the candidate set is the feature  *)
(* union when that is non-empty, and it is the whole corpus if and only if *)
(* the union is empty.                                                     *)
C19_Original ==
    (last.op = "candidates" /\ ~HasDoiHit(Query, index)) =>
        /\ FeatureUnion(Query) # {} => last.result = FeatureUnion(Query)
        /\ last.result = Range(corpus) <=> FeatureUnion(Query) = {}

(* C19 amended: without identifier hit the candidate set is the feature    *)
(* union when that is non-empty, and the whole corpus when it is empty (a  *)
(* non-empty union may itself be the whole corpus).                        *)
C19_ExactUnion ==
    (last.op = "candidates" /\ ~HasDoiHit(Query, index)) =>
        /\ FeatureUnion(Query) # {} => last.result = FeatureUnion(Query)
        /\ FeatureUnion(Query) = {} => last.result = Range(corpus)

(* a union of two records that come from two different buckets of one      *)
(* mapping, and nothing else shared                                        *)
C19_Witness ==
    /\ last.op = "candidates"
    /\ ~HasDoiHit(Query, index)
    /\ Cardinality(last.result) = 2
    /\ last.result = FeatureUnion(Query)
    /\ \A r \in last.result : ~SharesTextFeature(Query, r)
    /\ \E r1, r2 \in last.result : DecadeBucket(r1) # DecadeBucket(r2)

(* C20: find_similar_bibitems returns exactly min(top_n, s) matches, s the *)
(* number of candidates whose total is at least min_score; each match is   *)
(* such a candidate with its total, and no such candidate that is left out *)
(* has a total strictly greater than the total of a returned match.        *)
C20_TopKExact ==
    last.op = "find_similar" =>
        LET survivors == {c \in _get_candidate_set(Query, index) :
                              Total(c, Query) >= last.min_score}
            matched == MatchedItems(last.result)
        IN  /\ Len(last.result) = Min(last.top_n, Cardinality(survivors))
            /\ matched \subseteq survivors
            /\ \A i \in 1..Len(last.result) :
                  /\ last.result[i].total_score
                        = Total(last.result[i].matched_bibitem, Query)
                  /\ \A c \in survivors \ matched :
                        Total(c, Query) <= last.result[i].total_score

(* top_n matches returned and a candidate that passes the threshold left   *)
(* out, with a total strictly below the returned ones, although the        *)
(* candidate set iterates it first                                         *)
C20_Witness ==
    /\ last.op = "find_similar"
    /\ last.top_n >= 1
    /\ Len(last.result) = last.top_n
    /\ \E c \in _get_candidate_set(Query, index) \ MatchedItems(last.result) :
          /\ Total(c, Query) >= last.min_score
          /\ Total(c, Query) < last.result[Len(last.result)].total_score
          /\ Iterate(_get_candidate_set(Query, index), hashseed)[1] = c

AllCountsZero(result) ==
    \A k \in StatKinds :
        /\ result.stats[k].created = 0
        /\ result.stats[k].skipped = 0
        /\ result.stats[k].failed = 0

(* C18: import_to_api called with dry_run=True sends no request to the API *)
(* at any point, and the result it returns has every created, skipped and  *)
(* failed count at zero, whatever the rows of the file.                    *)
C18_DryRunNoApiCall ==
    (imp.pc # "none" /\ imp.dry_run) =>
        /\ api.calls = <<>>
        /\ api.store \in ApiStores
        /\ api.links = {}
        /\ imp.pc = "returned" => AllCountsZero(imp.result)

(* a dry run over a file of two valid rows has returned, without error *)
C18_Witness ==
    /\ imp.pc = "returned"
    /\ imp.dry_run
    /\ Len(imp.rows) = 2 /\ imp.rows[1] # imp.rows[2]
    /\ imp.result.errors = <<>>
    /\ api.calls = <<>>
    /\ AllCountsZero(imp.result)

(* the matched records of a result, in rank order *)
MatchedSeq(matches) == [i \in 1..Len(matches) |-> matches[i].matched_bibitem]

(* C21: for the same query, index, top_n and min_score, find_similar_bibitems *)
(* returns the same sequence of matched records under every iteration      *)
(* order of the candidate set, ties at the top_n cut-off included.         *)
C21_OrderIndependent ==
    (Built /\ last.op = "find_similar") =>
        \A seed \in HashSeeds :
            MatchedSeq(find_similar_bibitems(Query, index, last.top_n,
                                             last.min_score, seed))
              = MatchedSeq(last.result)

(* the normalised surnames of the authors that have one *)
NonEmptySurnames(authors) ==
    {Normalize(authors[i]) : i \in 1..Len(authors)} \ {<<>>}

(* C22: surname extraction returns exactly the non-empty normalised        *)
(* surnames of the authors, so the surname mapping of a built index has no *)
(* empty-string key, also for an author whose surname is only whitespace.  *)
C22_NoEmptySurnameKey ==
    Built =>
        /\ \A i \in 1..Len(corpus) :
              _extract_author_surnames(corpus[i].author)
                = NonEmptySurnames(corpus[i].author)
        /\ <<>> \notin DOMAIN index.author_surnames

(* the non-empty identifiers of the corpus *)
CorpusDois == {corpus[i].doi : i \in 1..Len(corpus)} \ {""}

(* the position of the last corpus record that carries the identifier *)
LastWith(doi) ==
    CHOOSE i \in 1..Len(corpus) :
        /\ corpus[i].doi = doi
        /\ \A j \in (i + 1)..Len(corpus) : corpus[j].doi # doi

(* C23: the identifier mapping of a built index has exactly one entry per  *)
(* distinct non-empty identifier of the corpus, and the entry holds the    *)
(* record that comes last in corpus order among those sharing it.          *)
C23_LastIdentifierWins ==
    Built =>
        /\ DOMAIN index.doi_index = CorpusDois
        /\ \A doi \in CorpusDois : index.doi_index[doi] = corpus[LastWith(doi)]

(* two different records share an identifier and the later one is indexed  *)
(* under it                                                                *)
C23_Witness ==
    /\ Built
    /\ Len(corpus) = 2
    /\ corpus[1] # corpus[2]
    /\ corpus[1].doi # "" /\ corpus[1].doi = corpus[2].doi
    /\ DOMAIN index.doi_index = {corpus[2].doi}
    /\ index.doi_index[corpus[2].doi] = corpus[2]
    /\ index.doi_index[corpus[2].doi] # corpus[1]

(* C24: every Match returned by find_similar_bibitems carries the full     *)
(* list of partial scores the scorer produced for (matched record, query), *)
(* and its total_score is the sum of the weighted contributions of exactly *)
(* those partial scores.                                                   *)
C24_MatchCarriesScores ==
    last.op = "find_similar" =>
        \A i \in 1..Len(last.result) :
            LET m == last.result[i]
            IN  /\ m.partial_scores
                     = compare_bibitems_detailed(m.matched_bibitem, Query)
                /\ m.total_score = SumWeighted(m.partial_scores)

(* a match with a positive total whose partial scores are some zero and    *)
(* some not                                                                *)
C24_Witness ==
    /\ last.op = "find_similar"
    /\ \E i \in 1..Len(last.result) :
          LET m == last.result[i]
          IN  /\ m.total_score > 0
              /\ \E j \in 1..Len(m.partial_scores) :
                    m.partial_scores[j].weighted_score = 0
              /\ m.partial_scores
                   = compare_bibitems_detailed(m.matched_bibitem, Query)
              /\ m.total_score = SumWeighted(m.partial_scores)

(* the generator has staged and yielded exactly the first pos input        *)
(* records, in input order                                                 *)
StreamInStep(g) ==
    /\ g.pos <= Len(g.bibitems)
    /\ Len(g.yielded) = g.pos
    /\ \A k \in 1..g.pos : g.yielded[k].bibitem = g.bibitems[k]
    /\ g.exhausted => g.pos = Len(g.bibitems)

(* C25: stage_bibitems_streaming produces its results one at a time.  A    *)
(* new generator has staged nothing; at every point the number of input    *)
(* records staged equals the number of results handed to the consumer, the *)
(* k-th result being the k-th input record's; a request stages at most one *)
(* more record and never goes back; an exhausted generator yields nothing  *)
(* further.                                                                *)
C25_StreamOneAtATime ==
    /\ [](gen.open => StreamInStep(gen))
    /\ [][(~gen.open /\ gen'.open) => (gen'.pos = 0 /\ gen'.yielded = <<>>)]_vars
    /\ [][(gen.open /\ gen'.open) =>
            /\ gen'.bibitems = gen.bibitems
            /\ gen'.pos \in {gen.pos, gen.pos + 1}
            /\ SubSeq(gen'.yielded, 1, gen.pos) = gen.yielded
            /\ gen.exhausted => (gen'.exhausted /\ gen'.yielded = gen.yielded)]_vars

(* a stream of two different records after the first request: one record   *)
(* staged and yielded, the second not yet staged                           *)
C25_Witness ==
    /\ gen.open /\ ~gen.exhausted
    /\ Len(gen.bibitems) = 2 /\ gen.bibitems[1] # gen.bibitems[2]
    /\ gen.pos = 1
    /\ Len(gen.yielded) = 1
    /\ gen.yielded[1].bibitem = gen.bibitems[1]

(* t occurs in text as a run of consecutive characters *)
OccursIn(t, text) ==
    \E offset \in 0..(Len(text) - Len(t)) :
        \A j \in 1..Len(t) : text[offset + j] = t[j]

(* the 3-character strings that occur in text *)
Substrings3(text) == {t \in [1..3 -> Range(text)] : OccursIn(t, text)}

(* what C26 says of one title *)
TrigramsExact(title) ==
    LET n == Normalize(title)
        ts == _extract_trigrams(title)
    IN  /\ Len(n) < 3 => ts = {}
        /\ Len(n) >= 3 =>
              /\ ts = Substrings3(n)
              /\ Cardinality(ts) <= Len(n) - 2
              /\ \A t \in ts : Len(t) = 3

(* C26: trigram extraction returns the empty set for a normalised text of  *)
(* fewer than 3 characters and otherwise exactly the set of its contiguous *)
(* 3-character substrings (at most length - 2 of them); a corpus record    *)
(* whose normalised title is shorter than 3 characters is in no trigram    *)
(* bucket of the index.                                                    *)
C26_TrigramsExact ==
    Built =>
        /\ \A i \in 1..Len(corpus) :
              /\ TrigramsExact(corpus[i].title)
              /\ Len(Normalize(corpus[i].title)) < 3 =>
                    \A k \in DOMAIN index.title_trigrams :
                        corpus[i] \notin index.title_trigrams[k]
        /\ last.op = "candidates" => TrigramsExact(Query.title)

(* an index over a record with a two-character title and a record with a   *)
(* longer one: the first is in no trigram bucket, the second in two        *)
C26_Witness ==
    /\ Built
    /\ \E i, j \in 1..Len(corpus) :
          /\ Len(Normalize(corpus[i].title)) = 2
          /\ \A k \in DOMAIN index.title_trigrams :
                corpus[i] \notin index.title_trigrams[k]
          /\ Len(Normalize(corpus[j].title)) > 3
          /\ Cardinality({k \in DOMAIN index.title_trigrams :
                            corpus[j] \in index.title_trigrams[k]}) = 2

(* how many requests of the log create an entity of the kind and were      *)
(* answered with the status                                                *)
Answered(kind, status) ==
    Cardinality({i \in 1..Len(api.calls) :
                    /\ api.calls[i][1] = "POST"
                    /\ api.calls[i][2] = kind
                    /\ api.calls[i][4] = status})

(* C27: during import_to_api an entity whose create request is answered    *)
(* with 409 Conflict is counted in its type's skipped count and not in its *)
(* created count: per entity type, skipped is the number of create         *)
(* requests answered 409 and created the number answered 201.              *)
C27_ConflictCountsAsSkipped ==
    imp.pc \in {"client", "returned"} =>
        \A kind \in Range(EntityKinds) \cup {"bibitems"} :
            /\ imp.result.stats[kind].skipped = Answered(kind, 409)
            /\ imp.result.stats[kind].created = Answered(kind, 201)

IsPrefix(s, t) == Len(s) <= Len(t) /\ SubSeq(t, 1, Len(s)) = s

Returns(p, result) == p.pc = "returned" /\ p.ret = Some(result)

FailsKeyValidation(row) ==
    /\ row.bibkey # ""
    /\ \/ Len(row.author_keys) # row.n_authors
       \/ \E kind \in row.has : kind \notin DOMAIN row.keys \/ row.keys[kind] = ""

(* C29: input validation of import_to_api is all-or-nothing: if any row of *)
(* the file fails key validation the load returns Err, no API call is      *)
(* made, all counts stay zero and the validation message is recorded in    *)
(* the result's errors.                                                    *)
C29_ValidationAllOrNothing ==
    (/\ imp.pc # "none"
     /\ imp.file.exists
     /\ \E i \in 1..Len(imp.file.rows) : FailsKeyValidation(imp.file.rows[i])) =>
        /\ ~_load_and_parse_file(imp.file).ok
        /\ api.calls = <<>>
        /\ imp.pc \in {"start", "returned"}
        /\ AllCountsZero(imp.result)
        /\ imp.pc = "returned" =>
              imp.result.errors = << <<"load", "Validation errors">> >>

(* a real run (not a dry run) over a file with one valid and one invalid   *)
(* row has returned with the validation error and without any API call     *)
C29_Witness ==
    /\ imp.pc = "returned"
    /\ ~imp.dry_run
    /\ Len(imp.file.rows) = 2
    /\ \E i, j \in 1..2 :
          /\ FailsKeyValidation(imp.file.rows[i])
          /\ imp.file.rows[j].bibkey # ""
          /\ ~FailsKeyValidation(imp.file.rows[j])
    /\ Len(imp.result.errors) = 1
    /\ api.calls = <<>>
    /\ AllCountsZero(imp.result)

(* C30: in every result of find_similar_bibitems the matched records are   *)
(* pairwise distinct and each is a member of the candidate set retrieved   *)
(* for the query, hence a corpus record; each candidate is scored once,    *)
(* also when it sits in several index buckets.                             *)
C30_MatchesDistinctCandidates ==
    (Built /\ last.op = "find_similar") =>
        LET candidates == _get_candidate_set(Query, index)
        IN  /\ \A i, j \in 1..Len(last.result) :
                  i # j => last.result[i].matched_bibitem
                            # last.result[j].matched_bibitem
            /\ MatchedItems(last.result) \subseteq candidates
            /\ candidates \subseteq Range(corpus)
            /\ Len(WithTotals(Query, candidates, hashseed))
                 = Cardinality(candidates)

(* two matches, one of them a record that the query finds both in a        *)
(* surname bucket and in a decade bucket                                   *)
C30_Witness ==
    /\ Built /\ last.op = "find_similar"
    /\ Len(last.result) = 2
    /\ ~HasDoiHit(Query, index)
    /\ \E i \in 1..2 :
          LET r == last.result[i].matched_bibitem
          IN  /\ r \in Buckets(index.author_surnames,
                               _extract_author_surnames(Query.author))
              /\ r \in Buckets(index.year_decades, DecadeKeys(Query))

============================================================================
